---- MODULE Spec2Model ----
(***************************************************************************)
(* Model of vrp.solver.build_global_plan (src/src/vrp/solver.py) and of    *)
(* the geo primitives it uses (src/src/vrp/geo.py).                        *)
(*                                                                         *)
(* Numbers.  Python ints (start_time, stay_minutes, the time matrix, the   *)
(* solver's cumul values) are integers of minutes.  Python floats (every   *)
(* field of a stop or a route, the sweeper's and the re-sequencer's        *)
(* clocks) are held as numerators over 2    , so that half minutes exist   *)
(* and math.ceil is not the identity.                                      *)
(*                                                                         *)
(* Geometry.  All points lie on one meridian; a point is its signed arc    *)
(* length from the equator in km, for which the haversine formula reduces  *)
(* to the absolute difference.                                             *)
(*                                                                         *)
(* Strings.  A target id is the sequence of its code points, so that       *)
(* str.split("@") and the lexicographic order of sorted() are computed.    *)
(***************************************************************************)
EXTENDS Integers, Sequences, FiniteSets, TLC

\* ---------------------------------------------------------------- bounds
MaxDates == 3
MaxDrivers == 3
MaxLaterDrivers == 1
MaxTargets == 3
MaxKm == 12
MaxSpeed == 41
MaxHKStops == 4
MaxTwoOptExtra == 1
MaxTwoOptFree == 6

\* ------------------------------------------------------------- constants
DayMinutes == 24 * 60
default_speed_kmph == 40
default_max_stops_per_vehicle == 15
branch_pt == 0
AtSign == 64
HeldKarpMax == 20
penalty_required == 1000000000
penalty_optional == 500000000

VARIABLES
    dates,            \* input: the date list (dates are numbered labels)
    drivers_by_date,  \* input: date -> list of drivers
    targets,          \* input: list of base targets
    speed_kmph,       \* input: the speed argument (line 234)
    max_stops_per_vehicle,  \* input: the stop limit argument (line 236)
    pc,               \* position inside build_global_plan
    vehicles,         \* lines 247-263
    warnings,         \* missing_driver_dates
    schedules,        \* date -> list of routes
    assigned_ids,     \* line 480
    unassigned,       \* global_unassigned / the returned "unassigned"
    status,           \* returned "status"
    message,          \* returned "message"
    two_opt_order     \* "order" of lines 659-719 while the 2-opt loop runs

vars == <<dates, drivers_by_date, targets, speed_kmph, max_stops_per_vehicle,
          pc, vehicles, warnings, schedules, assigned_ids, unassigned, status, message,
          two_opt_order>>

inputs == <<dates, drivers_by_date, targets, speed_kmph, max_stops_per_vehicle>>

\* ------------------------------------------------------ generic helpers
Max2(a, b) == IF a >= b THEN a ELSE b
Min2(a, b) == IF a <= b THEN a ELSE b
Abs(x) == IF x < 0 THEN 0 - x ELSE x
\* float(x): floats are numerators over 2, ints are whole
Float(x) == x * 2
Range(s) == {s[i] : i \in DOMAIN s}

RECURSIVE SumSeq(_)
SumSeq(s) == IF s = <<>> THEN 0 ELSE Head(s) + SumSeq(Tail(s))

RECURSIVE Flatten(_)
Flatten(ss) == IF ss = <<>> THEN <<>> ELSE Head(ss) \o Flatten(Tail(ss))

\* all orders of a finite set
RECURSIVE Perms(_)
Perms(S) ==
    IF S = {} THEN {<<>>}
    ELSE UNION {{<<x>> \o p : p \in Perms(S \ {x})} : x \in S}

\* str < str of Python: lexicographic on code points
RECURSIVE StrLess(_, _)
StrLess(a, b) ==
    IF b = <<>> THEN FALSE
    ELSE IF a = <<>> THEN TRUE
    ELSE IF Head(a) /= Head(b) THEN Head(a) < Head(b)
    ELSE StrLess(Tail(a), Tail(b))

\* s.split("@")[0]
RECURSIVE SplitAt0(_)
SplitAt0(s) ==
    IF s = <<>> THEN <<>>
    ELSE IF Head(s) = AtSign THEN <<>>
    ELSE <<Head(s)>> \o SplitAt0(Tail(s))

\* sorted(S) for a set of strings
RECURSIVE SortedIds(_)
SortedIds(S) ==
    IF S = {} THEN <<>>
    ELSE LET m == CHOOSE x \in S : \A y \in S \ {x} : StrLess(x, y)
         IN <<m>> \o SortedIds(S \ {m})

\* ------------------------------------------------------- geo primitives
haversine_km(origin, destination) == Abs(destination - origin)

\* the raise of line 32, as a value no travel time can take
ValueError == 0 - 1

\* the distance is tested before the speed
travel_time_minutes_DistanceFirst(distance_km, speed) ==
    IF distance_km <= 0 THEN 0
    ELSE IF speed <= 0 THEN ValueError
    ELSE (distance_km * Float(60)) \div speed

travel_time_minutes(distance_km, speed) ==
    IF speed <= 0 THEN ValueError
    ELSE IF distance_km <= 0 THEN 0
    ELSE (distance_km * Float(60)) \div speed

\* int(math.ceil(minutes)) of a float
CeilInt(x) == (x + Float(1) - 1) \div Float(1)

\* one entry of _build_time_matrix, by the two points
TimeMatrix(p, q) ==
    IF p = q THEN 0
    ELSE CeilInt(travel_time_minutes(haversine_km(p, q), speed_kmph))

\* ---------------------------------------------------------------- inputs
NoWindow == <<>>
NoDate == 0

\* "HH:MM" -> minutes, as lines 286-289 parse it
HHMM(p) == p[1] * 60 + p[2]

T1 == <<84, 49>>
T2 == <<84, 50>>
T3 == <<84, 51>>
T3at == <<84, 51, 64, 120>>

Target(id, lat, stay, req, tw, dtw) ==
    [id |-> id, lat |-> lat, stay_minutes |-> stay, required |-> req,
     time_window |-> tw, datetime_window |-> dtw]

Dtw(date, s, e) == [date |-> date, start |-> s, end |-> e]

\* the targets a caller may put at position i of the target list
TargetMenu(i) ==
    IF i = 1 THEN
        { Target(T1, 10, 30, TRUE, NoWindow, NoWindow),
          Target(T1, 10, 20, TRUE, <<600, 660>>, NoWindow),
          Target(T1, 10, 20, TRUE, NoWindow, Dtw(1, <<9, 0>>, <<10, 0>>)) }
    ELSE IF i = 2 THEN
        { Target(T2, 0 - 11, 30, TRUE, NoWindow, NoWindow),
          Target(T2, 201, 0, FALSE, NoWindow, NoWindow) }
    ELSE IF i = 3 THEN
        { Target(T3, 10, 30, TRUE, NoWindow, NoWindow),
          Target(T3at, 10, 30, TRUE, NoWindow, NoWindow),
          Target(T3, 10, 20, TRUE, NoWindow, Dtw(2, <<9, 0>>, <<10, 0>>)),
          Target(T3, 10, 20, TRUE, NoWindow, Dtw(3, <<9, 0>>, <<10, 0>>)) }
    ELSE
        { Target(<<84, 48 + i>>, 0 - 3 * i, 30, TRUE, NoWindow, NoWindow) }

DriverNames == <<"A", "B", "C", "D", "E", "F">>

\* the i-th driver of a date: B starts late, C works a short shift
Driver(i) ==
    [id |-> DriverNames[i],
     start_time |-> IF i = 2 THEN 540 ELSE 480,
     end_time |-> IF i = 3 THEN 500 ELSE 1020]

DriverList(k) == [i \in 1..k |-> Driver(i)]

\* the speed_kmph and max_stops_per_vehicle arguments a caller may pass
SpeedMenu == {0 - default_speed_kmph, 0, default_speed_kmph}
StopLimitMenu == {1, default_max_stops_per_vehicle}

DateIndex(d) == CHOOSE i \in DOMAIN dates : dates[i] = d
InDates(d) == \E i \in DOMAIN dates : dates[i] = d
date_to_offset(d) == (DateIndex(d) - 1) * DayMinutes

\* drivers_by_date.get(date, [])
DriversOn(d) == IF d \in DOMAIN drivers_by_date THEN drivers_by_date[d] ELSE <<>>

\* The first date has up to MaxDrivers drivers and every later date the same
\* list of up to MaxLaterDrivers; drivers_by_date may hold one more key than
\* there are dates (a date that is not in the date list).
Init ==
    /\ \E n \in 0..MaxDates, keys \in 0..MaxDates :
         /\ keys \in {n, n + 1}
         /\ dates = [i \in 1..n |-> i]
         /\ \E k1 \in 0..MaxDrivers, kl \in 0..MaxLaterDrivers :
              drivers_by_date =
                  [d \in 1..keys |-> IF d = 1 THEN DriverList(k1) ELSE DriverList(kl)]
    /\ \E m \in 0..MaxTargets :
         \E ts \in [1..m -> UNION {TargetMenu(i) : i \in 1..m}] :
             /\ \A i \in 1..m : ts[i] \in TargetMenu(i)
             /\ targets = ts
    /\ speed_kmph \in SpeedMenu
    /\ max_stops_per_vehicle \in StopLimitMenu
    /\ pc = "start"
    /\ vehicles = <<>>
    /\ warnings = <<>>
    /\ schedules = <<>>
    /\ assigned_ids = {}
    /\ unassigned = <<>>
    /\ status = "none"
    /\ message = "none"
    /\ two_opt_order = <<>>

\* ------------------------------------------------- lines 243-265
\* missing_driver_dates built by prepending instead of appending
RECURSIVE MissingDriverDates_Prepend(_)
MissingDriverDates_Prepend(ds) ==
    IF ds = <<>> THEN <<>>
    ELSE MissingDriverDates_Prepend(Tail(ds))
         \o (IF DriversOn(Head(ds)) = <<>> THEN <<Head(ds)>> ELSE <<>>)

\* missing_driver_dates: the dates without drivers, in date order
RECURSIVE MissingDriverDates(_)
MissingDriverDates(ds) ==
    IF ds = <<>> THEN <<>>
    ELSE (IF DriversOn(Head(ds)) = <<>> THEN <<Head(ds)>> ELSE <<>>)
         \o MissingDriverDates(Tail(ds))

Vehicle(d, drv) ==
    [id |-> drv.id, date |-> d, day_idx |-> DateIndex(d) - 1,
     start |-> (DateIndex(d) - 1) * DayMinutes + drv.start_time,
     end |-> (DateIndex(d) - 1) * DayMinutes + drv.end_time]

BuildVehicles ==
    Flatten([i \in DOMAIN dates |->
                [j \in DOMAIN DriversOn(dates[i]) |->
                    Vehicle(dates[i], DriversOn(dates[i])[j])]])

ReturnError(msg) ==
    /\ pc' = "done"
    /\ status' = "error"
    /\ message' = msg
    /\ UNCHANGED <<inputs, two_opt_order, vehicles, warnings, schedules, assigned_ids, unassigned>>

NoDates ==
    /\ pc = "start"
    /\ dates = <<>>
    /\ ReturnError("No dates provided")

NoDrivers ==
    /\ pc = "start"
    /\ dates /= <<>>
    /\ BuildVehicles = <<>>
    /\ ReturnError("No drivers provided for given dates")

\* the vehicle list is not tested for emptiness
Validate_NoVehicleTest ==
    /\ pc = "start"
    /\ dates /= <<>>
    /\ vehicles' = BuildVehicles
    /\ warnings' = MissingDriverDates(dates)
    /\ pc' = "solve"
    /\ UNCHANGED <<inputs, two_opt_order, schedules, assigned_ids, unassigned, status, message>>

Validate ==
    /\ pc = "start"
    /\ dates /= <<>>
    /\ BuildVehicles /= <<>>
    /\ vehicles' = BuildVehicles
    /\ warnings' = MissingDriverDates(dates)
    /\ pc' = "solve"
    /\ UNCHANGED <<inputs, two_opt_order, schedules, assigned_ids, unassigned, status, message>>

\* ------------------------------------------------- lines 270-316
day_work_windows(d) ==
    LET drivers == DriversOn(d)
        starts == {drivers[i].start_time : i \in DOMAIN drivers}
        ends == {drivers[i].end_time : i \in DOMAIN drivers}
    IN IF drivers /= <<>>
       THEN <<CHOOSE x \in starts : \A y \in starts : x <= y,
              CHOOSE x \in ends : \A y \in ends : x >= y>>
       ELSE <<0, 24 * 60>>

\* one expanded node: the target's own fields, base_id, tw_abs, and the date
\* in node_id (NoDate for the node of a datetime_window)
Clone(t, d, tw) ==
    [id |-> t.id, base_id |-> t.id, node_date |-> d, lat |-> t.lat,
     stay_minutes |-> t.stay_minutes, required |-> t.required, tw_abs |-> tw]

\* the datetime_window is not looked at
ExpandTarget_IgnoreDatetimeWindow(t) ==
    IF t.time_window /= NoWindow
    THEN LET start == t.time_window[1]
             end == Max2(start + 1, t.time_window[2] - t.stay_minutes)
         IN [i \in DOMAIN dates |->
                Clone(t, dates[i], <<date_to_offset(dates[i]) + start,
                                     date_to_offset(dates[i]) + end>>)]
    ELSE [i \in DOMAIN dates |->
            LET w == day_work_windows(dates[i])
                end == Max2(w[1] + 1, w[2] - t.stay_minutes)
            IN Clone(t, dates[i], <<date_to_offset(dates[i]) + w[1],
                                    date_to_offset(dates[i]) + end>>)]

ExpandTarget(t) ==
    IF t.datetime_window /= NoWindow /\ InDates(t.datetime_window.date)
    THEN LET start == date_to_offset(t.datetime_window.date) + HHMM(t.datetime_window.start)
             end == date_to_offset(t.datetime_window.date) + HHMM(t.datetime_window.end)
         IN <<Clone(t, NoDate, <<start, Max2(start + 1, end - t.stay_minutes)>>)>>
    ELSE IF t.time_window /= NoWindow
    THEN LET start == t.time_window[1]
             end == Max2(start + 1, t.time_window[2] - t.stay_minutes)
         IN [i \in DOMAIN dates |->
                Clone(t, dates[i], <<date_to_offset(dates[i]) + start,
                                     date_to_offset(dates[i]) + end>>)]
    ELSE [i \in DOMAIN dates |->
            LET w == day_work_windows(dates[i])
                end == Max2(w[1] + 1, w[2] - t.stay_minutes)
            IN Clone(t, dates[i], <<date_to_offset(dates[i]) + w[1],
                                    date_to_offset(dates[i]) + end>>)]

expanded_targets == Flatten([i \in DOMAIN targets |-> ExpandTarget(targets[i])])

\* base_targets = {t["id"]: t for t in targets}
base_target_ids == {targets[i].id : i \in DOMAIN targets}
base_targets(tid) == targets[CHOOSE i \in DOMAIN targets : targets[i].id = tid]

\* ------------------------------------------------- lines 328-413
\* The routing model.  A solution gives every vehicle a chain of nodes; the
\* values of the Time cumul variables are the earliest ones the chain allows.
horizon == (Len(dates) + 1) * DayMinutes

capacities(nodes) ==
    IF Len(vehicles) = 1 THEN Len(nodes) + 1
    ELSE IF Len(nodes) > 50 /\ Len(dates) > 1
         THEN Min2(Max2(max_stops_per_vehicle, 20), 25)
         ELSE max_stops_per_vehicle

\* cumul values of a chain: transit = matrix + service time of the node left
\* (the arrival is bound by a one-element set so that it is computed once)
RECURSIVE Cumuls(_, _, _, _)
Cumuls(nodes, chain, prev_pt, ready) ==
    IF chain = <<>> THEN <<>>
    ELSE LET n == nodes[Head(chain)]
         IN CHOOSE cum \in
                {<<arrival>> \o Cumuls(nodes, Tail(chain), n.lat, arrival + n.stay_minutes) :
                    arrival \in {Max2(n.tw_abs[1], ready + TimeMatrix(prev_pt, n.lat))}} : TRUE

\* the time at which the vehicle can leave the i-th node of the chain
ReadyAfter(nodes, chain, cum, veh, i) ==
    IF i = 0 THEN veh.start ELSE cum[i] + nodes[chain[i]].stay_minutes

PointAt(nodes, chain, i) == IF i = 0 THEN branch_pt ELSE nodes[chain[i]].lat

EndCumul(nodes, chain, cum, veh) ==
    ReadyAfter(nodes, chain, cum, veh, Len(chain))
        + TimeMatrix(PointAt(nodes, chain, Len(chain)), branch_pt)

ChainFeasible(nodes, chain, veh) ==
    \E cum \in {Cumuls(nodes, chain, branch_pt, veh.start)} :
       /\ veh.start <= veh.end
       /\ Len(chain) <= capacities(nodes)
       /\ \A i \in DOMAIN chain :
            /\ cum[i] <= nodes[chain[i]].tw_abs[2]
            /\ cum[i] <= horizon
            /\ cum[i] - (ReadyAfter(nodes, chain, cum, veh, i - 1)
                         + TimeMatrix(PointAt(nodes, chain, i - 1), nodes[chain[i]].lat))
                 <= 24 * 60
       /\ EndCumul(nodes, chain, cum, veh) <= veh.end

InsertAt(chain, pos, n) ==
    SubSeq(chain, 1, pos) \o <<n>> \o SubSeq(chain, pos + 1, Len(chain))

\* every assignment the model admits that visits only clones of the first k
\* base ids, at most one clone of each (the disjunction of lines 395-402)
RECURSIVE Solutions(_, _, _)
Solutions(nodes, bases, k) ==
    IF k = 0 THEN {[v \in DOMAIN vehicles |-> <<>>]}
    ELSE LET clones == {n \in DOMAIN nodes : nodes[n].base_id = bases[k]}
         IN UNION {
              prev \cup
              UNION {UNION {UNION {
                  {[s EXCEPT ![v] = InsertAt(s[v], pos, n)] : pos \in
                      {q \in 0..Len(s[v]) :
                          ChainFeasible(nodes, InsertAt(s[v], q, n), vehicles[v])}}
                  : n \in clones} : v \in DOMAIN vehicles} : s \in prev}
              : prev \in {Solutions(nodes, bases, k - 1)}}

\* ------------------------------------------------- lines 340-347, 391-402
\* The objective of the routing model.  Costs are 64-bit integers in the
\* solver; here a cost is the pair <<c \div CostBase, c % CostBase>>, so that
\* sums of penalties stay inside the integers at hand.
CostBase == 1000000000

Big(n) == <<n \div CostBase, n % CostBase>>

BigAdd(x, y) ==
    <<x[1] + y[1] + ((x[2] + y[2]) \div CostBase), (x[2] + y[2]) % CostBase>>

BigLeq(x, y) == x[1] < y[1] \/ (x[1] = y[1] /\ x[2] <= y[2])

RECURSIVE BigSum(_)
BigSum(xs) == IF xs = <<>> THEN Big(0) ELSE BigAdd(Head(xs), BigSum(Tail(xs)))

\* travel_only_callback summed over the arcs of one vehicle, the arc back to
\* the depot included
ChainTravel(nodes, chain) ==
    SumSeq([i \in DOMAIN chain |->
               TimeMatrix(PointAt(nodes, chain, i - 1), nodes[chain[i]].lat)])
        + TimeMatrix(PointAt(nodes, chain, Len(chain)), branch_pt)

SolutionTravel(nodes, sol) ==
    SumSeq([v \in DOMAIN sol |-> ChainTravel(nodes, sol[v])])

\* every disjunction costs one minute
DisjunctionPenalty_OneMinute(t) == 1

\* line 401
DisjunctionPenalty(t) == IF t.required THEN penalty_required ELSE penalty_optional

\* the base targets none of whose clones is on a chain, in list order
DroppedBases(nodes, sol) ==
    SelectSeq(targets,
              LAMBDA t : /\ \E n \in DOMAIN nodes : nodes[n].base_id = t.id
                         /\ \A v \in DOMAIN sol : \A i \in DOMAIN sol[v] :
                                nodes[sol[v][i]].base_id /= t.id)

\* the penalties of the disjunctions that have no active node
SolutionPenalty(nodes, sol) ==
    BigSum([i \in DOMAIN DroppedBases(nodes, sol) |->
               Big(DisjunctionPenalty(DroppedBases(nodes, sol)[i]))])

\* <<travel, penalty>> of every solution the model admits
Objectives ==
    UNION {{<<SolutionTravel(nodes, sol), SolutionPenalty(nodes, sol)>> :
               sol \in Solutions(nodes, [i \in DOMAIN targets |-> targets[i].id],
                                 Len(targets))}
           : nodes \in {expanded_targets}}

SolutionCost(obj) == BigAdd(Big(obj[1]), obj[2])

\* ------------------------------------------------- lines 430-474
Stop(tid, arrival, depart, travel, stay) ==
    [target_id |-> tid, arrival_min |-> arrival, depart_min |-> depart,
     travel_minutes |-> travel, stay_minutes |-> stay]

Route(drv, stops, travel, stay, end_time, overtime, return_travel) ==
    [driver_id |-> drv, stops |-> stops, travel_minutes |-> travel,
     stay_minutes |-> stay, end_time |-> end_time,
     overtime_minutes |-> overtime, return_travel_minutes |-> return_travel]

ExtractRouteWith(nodes, chain, veh, cum) ==
    LET prev_depart(i) == ReadyAfter(nodes, chain, cum, veh, i - 1)
        travel(i) == Max2(0, cum[i] - prev_depart(i))
        stops == [i \in DOMAIN chain |->
                    Stop(nodes[chain[i]].id, Float(cum[i]),
                         Float(cum[i] + nodes[chain[i]].stay_minutes),
                         Float(travel(i)), Float(nodes[chain[i]].stay_minutes))]
        end_arrival == EndCumul(nodes, chain, cum, veh)
        return_travel == Max2(0, end_arrival - prev_depart(Len(chain) + 1))
        total_travel == SumSeq([i \in DOMAIN chain |-> travel(i)]) + return_travel
        total_stay == SumSeq([i \in DOMAIN chain |-> nodes[chain[i]].stay_minutes])
    IN Route(veh.id, stops, Float(total_travel), Float(total_stay),
             Float(end_arrival), Max2(0, Float(end_arrival) - Float(veh.end)),
             Float(return_travel))

ExtractRoute(nodes, chain, veh) ==
    CHOOSE r \in {ExtractRouteWith(nodes, chain, veh, cum) :
                     cum \in {Cumuls(nodes, chain, branch_pt, veh.start)}} : TRUE

\* routes of the vehicles of one date, in vehicle order
ExtractDate(nodes, sol, d) ==
    LET vs == SelectSeq([v \in DOMAIN vehicles |-> v], LAMBDA v : vehicles[v].date = d)
    IN [j \in DOMAIN vs |-> ExtractRoute(nodes, sol[vs[j]], vehicles[vs[j]])]

\* line 318: _build_time_matrix calls travel_time_minutes for every pair of
\* distinct indices of [branch] + expanded_targets
TimeMatrixRaises ==
    LET points == <<branch_pt>> \o [i \in DOMAIN expanded_targets |-> expanded_targets[i].lat]
    IN \E i, j \in DOMAIN points :
          /\ i /= j
          /\ travel_time_minutes(haversine_km(points[i], points[j]), speed_kmph) = ValueError

BuildTimeMatrixRaises ==
    /\ pc = "solve"
    /\ TimeMatrixRaises
    /\ status' = "ValueError"
    /\ pc' = "done"
    /\ UNCHANGED <<inputs, two_opt_order, vehicles, warnings, schedules, assigned_ids, unassigned, message>>

\* line 413 returned a solution: lines 415-474
Solve ==
    /\ pc = "solve"
    /\ ~TimeMatrixRaises
    /\ \E nodes \in {expanded_targets} :
         \E sol \in Solutions(nodes, [i \in DOMAIN targets |-> targets[i].id], Len(targets)) :
            schedules' = [i \in DOMAIN dates |-> ExtractDate(nodes, sol, dates[i])]
    /\ pc' = "sweep"
    /\ UNCHANGED <<inputs, two_opt_order, vehicles, warnings, assigned_ids, unassigned, status, message>>

\* the no-solution return reports nothing as unassigned
SolveNone_EmptyUnassigned ==
    /\ pc = "solve"
    /\ ~TimeMatrixRaises
    /\ pc' = "done"
    /\ status' = "no_solution"
    /\ message' = "No feasible solution found within time limit"
    /\ schedules' = <<>>
    /\ unassigned' = <<>>
    /\ UNCHANGED <<inputs, two_opt_order, vehicles, warnings, assigned_ids>>

\* line 413 returned None: line 477
SolveNone ==
    /\ pc = "solve"
    /\ ~TimeMatrixRaises
    /\ pc' = "done"
    /\ status' = "no_solution"
    /\ message' = "No feasible solution found within time limit"
    /\ schedules' = <<>>
    /\ unassigned' = [i \in DOMAIN targets |-> targets[i].id]
    /\ UNCHANGED <<inputs, two_opt_order, vehicles, warnings, assigned_ids>>

\* ------------------------------------------------- lines 480-545
AllRoutes(sch) == Flatten([i \in DOMAIN sch |-> sch[i]])
AllStops(sch) == Flatten([i \in DOMAIN AllRoutes(sch) |-> AllRoutes(sch)[i].stops])

\* lines 480-484
AssignedIdsOf(sch) == {SplitAt0(AllStops(sch)[i].target_id) : i \in DOMAIN AllStops(sch)}

\* remaining.sort(key=id) of the base targets whose id is in ids
RECURSIVE SortById(_)
SortById(ids) ==
    IF ids = {} THEN <<>>
    ELSE LET m == CHOOSE x \in ids : \A y \in ids \ {x} : StrLess(x, y)
         IN <<base_targets(m)>> \o SortById(ids \ {m})

\* the while loop of lines 502-524; clocks are floats
RECURSIVE SweepStops(_, _, _, _, _, _)
SweepStops(remaining, stops, current, travel_acc, prev_point, end_time) ==
    LET here == [remaining |-> remaining, stops |-> stops, current |-> current,
                 travel_acc |-> travel_acc, prev_point |-> prev_point]
    IN IF remaining = <<>> \/ Len(stops) >= max_stops_per_vehicle THEN here
       ELSE LET t == Head(remaining)
                stay == Float(t.stay_minutes)
                travel == travel_time_minutes(haversine_km(prev_point, t.lat), speed_kmph)
                arrival == current + travel
                depart == arrival + stay
            IN IF current + travel + stay > end_time THEN here
               ELSE SweepStops(Tail(remaining),
                               Append(stops, Stop(t.id, arrival, depart, travel, stay)),
                               depart, travel_acc + travel, t.lat, end_time)

\* lines 497-542 for one driver of one date
SweepRoute(remaining, d, drv) ==
    LET w == SweepStops(remaining, <<>>, Float(date_to_offset(d) + drv.start_time), 0,
                        branch_pt, Float(date_to_offset(d) + drv.end_time))
        return_travel ==
            IF w.stops /= <<>>
            THEN travel_time_minutes(haversine_km(w.prev_point, branch_pt), speed_kmph)
            ELSE 0
    IN [remaining |-> w.remaining,
        route |-> Route(drv.id, w.stops, w.travel_acc + return_travel,
                        SumSeq([i \in DOMAIN w.stops |-> w.stops[i].stay_minutes]),
                        w.current + return_travel, 0, return_travel)]

\* the loops of lines 489-494 over the (date, driver) pairs in order
RECURSIVE SweepAll(_, _, _, _)
SweepAll(slots, remaining, sch, assigned) ==
    IF slots = <<>> \/ remaining = <<>>
    THEN [schedules |-> sch, assigned_ids |-> assigned]
    ELSE LET d == Head(slots)[1]
             r == SweepRoute(remaining, d, Head(slots)[2])
             di == DateIndex(d)
         IN SweepAll(Tail(slots), r.remaining,
                     [sch EXCEPT ![di] = Append(@, r.route)],
                     assigned \cup {r.route.stops[i].target_id : i \in DOMAIN r.route.stops})

DriverSlots ==
    Flatten([i \in DOMAIN dates |->
                [j \in DOMAIN DriversOn(dates[i]) |-> <<dates[i], DriversOn(dates[i])[j]>>]])

Sweep ==
    /\ pc = "sweep"
    /\ LET assigned == AssignedIdsOf(schedules)
           remaining == SortById(base_target_ids \ assigned)
           r == SweepAll(DriverSlots, remaining, schedules, assigned)
       IN /\ schedules' = r.schedules
          /\ assigned_ids' = r.assigned_ids
          /\ unassigned' = SortedIds(base_target_ids \ r.assigned_ids)
    /\ pc' = "backfill"
    /\ UNCHANGED <<inputs, two_opt_order, vehicles, warnings, status, message>>

\* ------------------------------------------------- lines 547-642
HasStops(r) == r.stops /= <<>>

\* used_days (line 548)
UsedDays(sch) ==
    SelectSeq(dates, LAMBDA d : \E i \in DOMAIN sch[DateIndex(d)] :
                                    HasStops(sch[DateIndex(d)][i]))

\* (d, ri) of the routes of the given days that hold at least min_len stops
DonorSlotsOf(sch, days, min_len) ==
    Flatten([k \in DOMAIN days |->
        LET rs == sch[DateIndex(days[k])]
        IN SelectSeq([ri \in DOMAIN rs |-> <<days[k], ri>>],
                     LAMBDA p : Len(rs[p[2]].stops) >= min_len)])

\* lines 556-564
donor_slots(sch, used_days) ==
    DonorSlotsOf(sch, Tail(used_days), 1) \o DonorSlotsOf(sch, used_days, 2)

\* the stop is read but stays in the donor route
PopLast_KeepsStop(route) == route

\* line 576 is left out: the stop goes, the stay total stays
PopLast_KeepsStay(route) ==
    [route EXCEPT !.stops = SubSeq(@, 1, Len(@) - 1)]

\* route["stops"].pop() and line 576
PopLast(route) ==
    LET stop == route.stops[Len(route.stops)]
    IN [route EXCEPT !.stops = SubSeq(@, 1, Len(@) - 1),
                     !.stay_minutes = Max2(0, @ - stop.stay_minutes)]

\* lines 577-601: the single-stop route of a missing driver
BackfillRoute(first_day, drv_id, stop) ==
    LET drvs == DriversOn(first_day)
        drv_info == drvs[CHOOSE i \in DOMAIN drvs :
                            /\ drvs[i].id = drv_id
                            /\ \A j \in 1..(i - 1) : drvs[j].id /= drv_id]
        offset == date_to_offset(first_day)
        arrival == Float(offset + drv_info.start_time)
        depart == Min2(Float(offset + drv_info.end_time), arrival + stop.stay_minutes)
    IN Route(drv_id, <<Stop(stop.target_id, arrival, depart, 0, stop.stay_minutes)>>,
             0, stop.stay_minutes, depart, 0, 0)

\* the loop of lines 567-601; donor_idx counts the donor slots consumed
RECURSIVE BackfillLoop(_, _, _, _, _)
BackfillLoop(missing, slots, donor_idx, sch, first_day) ==
    IF missing = <<>> \/ donor_idx >= Len(slots)
    THEN [schedules |-> sch, donor_idx |-> donor_idx]
    ELSE LET di == DateIndex(slots[donor_idx + 1][1])
             ri == slots[donor_idx + 1][2]
             route == sch[di][ri]
         IN IF ~HasStops(route)
            THEN BackfillLoop(Tail(missing), slots, donor_idx + 1, sch, first_day)
            ELSE LET stop == route.stops[Len(route.stops)]
                     popped == [sch EXCEPT ![di][ri] = PopLast(route)]
                     moved == [popped EXCEPT ![DateIndex(first_day)] =
                                  Append(@, BackfillRoute(first_day, Head(missing), stop))]
                 IN BackfillLoop(Tail(missing), slots, donor_idx + 1, moved, first_day)

\* lines 603-642: one stop of the longest route of first_day goes to the
\* first driver still missing
StealFromLongest(missing, donor_idx, sch, first_day) ==
    LET fi == DateIndex(first_day)
        rs == sch[fi]
        longest_len == IF rs = <<>> THEN 0
                       ELSE CHOOSE l \in {Len(rs[i].stops) : i \in DOMAIN rs} :
                                \A i \in DOMAIN rs : Len(rs[i].stops) <= l
        ri == CHOOSE i \in DOMAIN rs :
                  /\ Len(rs[i].stops) = longest_len
                  /\ \A j \in DOMAIN rs : j > i => Len(rs[j].stops) < longest_len
    IN IF donor_idx < Len(missing) /\ rs /= <<>> /\ longest_len > 0
       THEN LET stop == rs[ri].stops[Len(rs[ri].stops)]
            IN [sch EXCEPT ![fi] =
                   Append([@ EXCEPT ![ri] = PopLast(rs[ri])],
                          BackfillRoute(first_day, missing[donor_idx + 1], stop))]
       ELSE sch

\* the drivers of first_day without a stop on it (lines 551-553), as a set
MissingDrivers(sch, first_day) ==
    {DriversOn(first_day)[i].id : i \in DOMAIN DriversOn(first_day)}
        \ {sch[DateIndex(first_day)][i].driver_id :
              i \in {j \in DOMAIN sch[DateIndex(first_day)] :
                        HasStops(sch[DateIndex(first_day)][j])}}

\* lines 554-642 for one iteration order of the missing drivers
BackfillWith(missing, used_days) ==
    IF missing = <<>> THEN schedules
    ELSE LET r == BackfillLoop(missing, donor_slots(schedules, used_days),
                               0, schedules, used_days[1])
         IN StealFromLongest(missing, r.donor_idx, r.schedules, used_days[1])

\* list(set) of line 553 yields the missing drivers in any order
Backfill ==
    /\ pc = "backfill"
    /\ LET used_days == UsedDays(schedules)
       IN IF used_days = <<>> THEN schedules' = schedules
          ELSE \E missing \in Perms(MissingDrivers(schedules, used_days[1])) :
                   schedules' = BackfillWith(missing, used_days)
    /\ pc' = "resequence"
    /\ UNCHANGED <<inputs, two_opt_order, vehicles, warnings, assigned_ids, unassigned, status, message>>

\* ------------------------------------------------- lines 645-758
\* dist[a][b] of line 656 over coords = [branch] + stops + [branch]; floats
Dist(pts, a, b) ==
    LET pa == IF a = 0 THEN branch_pt ELSE pts[a]
        pb == IF b = 0 THEN branch_pt ELSE pts[b]
    IN travel_time_minutes(haversine_km(pa, pb), speed_kmph)

\* the comparisons of lines 679 and 687 are reversed
MinOf_Largest(S) == CHOOSE x \in S : \A y \in S : x >= y

MinOf(S) == CHOOSE x \in S : \A y \in S : x <= y

\* dp[mask][j] of lines 663-681: cheapest way to leave the depot, visit the
\* stops of S and end at j
RECURSIVE HKCost(_, _, _)
HKCost(pts, S, j) ==
    IF S = {j} THEN Dist(pts, 0, j)
    ELSE MinOf({HKCost(pts, S \ {j}, k) + Dist(pts, k, j) : k \in S \ {j}})

\* parent[mask][j]: the update of line 679 is strict and the candidates come
\* in increasing order, so the first of the cheapest predecessors stays
HKParent(pts, S, j) ==
    MinOf({k \in S \ {j} : HKCost(pts, S \ {j}, k) + Dist(pts, k, j) = HKCost(pts, S, j)})

\* lines 691-698, the sequence before it is reversed
RECURSIVE HKBack(_, _, _)
HKBack(pts, S, last) ==
    IF S = {last} THEN <<last>>
    ELSE <<last>> \o HKBack(pts, S \ {last}, HKParent(pts, S, last))

Reverse(s) == [i \in DOMAIN s |-> s[Len(s) + 1 - i]]

\* the stops are rotated by one place, whatever the distances
HeldKarpOrder_Rotate(pts) ==
    [i \in DOMAIN pts |-> IF i = Len(pts) THEN 1 ELSE i + 1]

\* lines 662-699
HeldKarpOrder(pts) ==
    LET full == DOMAIN pts
        best_cost == MinOf({HKCost(pts, full, j) + Dist(pts, j, 0) : j \in full})
        last == MinOf({j \in full : HKCost(pts, full, j) + Dist(pts, j, 0) = best_cost})
    IN Reverse(HKBack(pts, full, last))

\* a reversal that leaves the tour as long as it was is accepted too
TwoOptImproves_AcceptsTies(pts, order, i, j) ==
    LET a == IF i > 0 THEN order[i] ELSE 0
        b == order[i + 1]
        c == order[j + 1]
        d == IF j + 1 < Len(order) THEN order[j + 2] ELSE 0
    IN Dist(pts, a, c) + Dist(pts, b, d) <= Dist(pts, a, b) + Dist(pts, c, d)

\* lines 706-719, one scan: the first pair (i, j), 0-based as in the code, whose
\* segment reversal shortens the tour.  Floats are multiples of 1/2, so
\* the margin 1e-6 of line 714 makes no difference.
TwoOptImproves(pts, order, i, j) ==
    LET a == IF i > 0 THEN order[i] ELSE 0
        b == order[i + 1]
        c == order[j + 1]
        d == IF j + 1 < Len(order) THEN order[j + 2] ELSE 0
    IN Dist(pts, a, c) + Dist(pts, b, d) < Dist(pts, a, b) + Dist(pts, c, d)

TwoOptPairs(pts, order) ==
    {p \in (0..(Len(order) - 2)) \X (0..(Len(order) - 1)) :
        /\ p[2] >= p[1] + 2
        /\ ~(p[2] = Len(order) - 1 /\ p[1] = 0)
        /\ TwoOptImproves(pts, order, p[1], p[2])}

\* order[i:j + 1] = reversed(order[i:j + 1])
ReverseSegment(order, i, j) ==
    [k \in DOMAIN order |-> IF k >= i + 1 /\ k <= j + 1 THEN order[i + j + 2 - k] ELSE order[k]]

\* the pair the scan of lines 706-707 meets first
FirstPair(ps) ==
    CHOOSE x \in ps : \A y \in ps : x[1] < y[1] \/ (x[1] = y[1] /\ x[2] <= y[2])

\* the while loop of lines 704-719
RECURSIVE TwoOptLoop(_, _)
TwoOptLoop(pts, order) ==
    LET ps == TwoOptPairs(pts, order)
    IN IF ps = {} THEN order
       ELSE LET p == FirstPair(ps)
            IN TwoOptLoop(pts, ReverseSegment(order, p[1], p[2]))

\* lines 702-719: three rounds of the loop
TwoOptOrder(pts) ==
    TwoOptLoop(pts, TwoOptLoop(pts, TwoOptLoop(pts, [i \in DOMAIN pts |-> i])))

\* the stops are put in the new order with the times they had
RebuildStops_KeepTimes(stops, order, current, prev_coord) ==
    [i \in DOMAIN order |-> stops[order[i]]]

\* lines 722-745: the stops in the new order, driven without waiting
\* (the arrival is bound by a one-element set so that it is computed once)
RECURSIVE RebuildStops(_, _, _, _)
RebuildStops(stops, order, current, prev_coord) ==
    IF order = <<>> THEN <<>>
    ELSE LET t_id == stops[Head(order)].target_id
             t == base_targets(t_id)
             travel == travel_time_minutes(haversine_km(prev_coord, t.lat), speed_kmph)
         IN CHOOSE new_stops \in
                {<<Stop(t_id, arrival, arrival + Float(t.stay_minutes), travel,
                        Float(t.stay_minutes))>>
                    \o RebuildStops(stops, Tail(order), arrival + Float(t.stay_minutes), t.lat) :
                    arrival \in {current + travel}} : TRUE

HasWindow(t) == t.time_window /= NoWindow \/ t.datetime_window /= NoWindow

\* lines 747-758: the totals of the rebuilt route
RouteOfStops(route, new_stops, driver_end) ==
    LET last == new_stops[Len(new_stops)]
        return_travel ==
            travel_time_minutes(
                haversine_km(base_targets(last.target_id).lat, branch_pt), speed_kmph)
        travel_total ==
            SumSeq([i \in DOMAIN new_stops |-> new_stops[i].travel_minutes])
                + return_travel
        current == last.depart_min + return_travel
    IN [route EXCEPT
           !.stops = new_stops,
           !.travel_minutes = travel_total - return_travel,
           !.stay_minutes =
               SumSeq([i \in DOMAIN new_stops |-> new_stops[i].stay_minutes]),
           !.return_travel_minutes = return_travel,
           !.end_time = current,
           !.overtime_minutes = Max2(0, current - Float(driver_end))]

\* lines 721-758: the route rebuilt with its stops in the given order
RebuildRoute(route, ord, driver_start, driver_end) ==
    CHOOSE r \in {RouteOfStops(route, new_stops, driver_end) :
                     new_stops \in {RebuildStops(route.stops, ord, Float(driver_start),
                                                 branch_pt)}} : TRUE

\* coords of line 655 without the two depot entries
StopPoints(route) ==
    [i \in DOMAIN route.stops |-> base_targets(route.stops[i].target_id).lat]

\* lines 655-758: the route with its stops put in the computed order
Reordered(route, driver_start, driver_end) ==
    RebuildRoute(route,
                 IF Len(route.stops) <= HeldKarpMax THEN HeldKarpOrder(StopPoints(route))
                 ELSE TwoOptOrder(StopPoints(route)),
                 driver_start, driver_end)

\* the guard of lines 649-653 is left out
optimize_route_order_NoWindowGuard(route, driver_start, driver_end) ==
    IF Len(route.stops) < 3 THEN route
    ELSE Reordered(route, driver_start, driver_end)

optimize_route_order(route, driver_start, driver_end) ==
    IF Len(route.stops) < 3 THEN route
    ELSE IF \E i \in DOMAIN route.stops :
                HasWindow(base_targets(route.stops[i].target_id))
    THEN route
    ELSE Reordered(route, driver_start, driver_end)

\* driver_time_map[d].get(driver_id) of lines 760-766: the last driver of the
\* date with that id, or none
DriverTimes(d, drv_id) ==
    LET drvs == DriversOn(d)
        hits == {i \in DOMAIN drvs : drvs[i].id = drv_id}
    IN IF hits = {} THEN <<>>
       ELSE LET i == CHOOSE x \in hits : \A y \in hits : y <= x
            IN <<date_to_offset(d) + drvs[i].start_time,
                 date_to_offset(d) + drvs[i].end_time>>

\* date_to_offset[d] of line 761 for every driver of every key of
\* drivers_by_date: a key outside the date list that has drivers raises
StrayDriverKey ==
    \E d \in DOMAIN drivers_by_date : ~InDates(d) /\ drivers_by_date[d] /= <<>>

ResequenceRaises ==
    /\ pc = "resequence"
    /\ StrayDriverKey
    /\ status' = "KeyError"
    /\ pc' = "done"
    /\ UNCHANGED <<inputs, two_opt_order, vehicles, warnings, schedules, assigned_ids, unassigned, message>>

\* the loop of lines 764-770 over the routes of sch
ResequenceAll(sch) ==
    [di \in DOMAIN sch |->
        [ri \in DOMAIN sch[di] |->
            LET r == sch[di][ri]
                times == DriverTimes(dates[di], r.driver_id)
            IN IF times = <<>> THEN r
               ELSE optimize_route_order(r, times[1], times[2])]]

\* lines 764-778
Resequence ==
    /\ pc = "resequence"
    /\ ~StrayDriverKey
    /\ schedules' = ResequenceAll(schedules)
    /\ status' = "success"
    /\ pc' = "done"
    /\ UNCHANGED <<inputs, two_opt_order, vehicles, warnings, assigned_ids, unassigned, message>>

Next ==
    \/ NoDates
    \/ NoDrivers
    \/ Validate
    \/ BuildTimeMatrixRaises
    \/ Solve
    \/ SolveNone
    \/ Sweep
    \/ Backfill
    \/ ResequenceRaises
    \/ Resequence

Spec == Init /\ [][Next]_vars

\* ------------------------------------------- the re-sequencer on its own
\* One driver on one date and a route that visits every target in list
\* order: the state before line 760 when the solver returns that chain.
\* Routes of up to MaxHKStops stops take points from RouteKm and may hold one
\* target with a time window; routes of more than HeldKarpMax stops vary in
\* their first MaxTwoOptFree points.
RouteKm == {0 - 11, 0 - 3, 4, 10}
LongRouteKm(i) == ((i * 5) % 7) - 3
RouteTargetId(i) == <<84, 48 + i>>

RouteTargets ==
    UNION {
        {[i \in 1..m |-> Target(RouteTargetId(i), lats[i], 5, TRUE,
                                IF i = w THEN <<480, 1020>> ELSE NoWindow, NoWindow)] :
            lats \in [1..m -> RouteKm], w \in 0..m}
        : m \in 1..MaxHKStops}
    \cup UNION {
        {[i \in 1..m |-> Target(RouteTargetId(i),
                                IF i <= MaxTwoOptFree THEN lats[i] ELSE LongRouteKm(i),
                                1, TRUE, NoWindow, NoWindow)] :
            lats \in [1..MaxTwoOptFree -> {0 - 2, 3}]}
        : m \in (HeldKarpMax + 1)..(HeldKarpMax + MaxTwoOptExtra)}

InitReseq ==
    /\ dates = <<1>>
    /\ drivers_by_date = <<DriverList(1)>>
    /\ targets \in RouteTargets
    /\ speed_kmph = default_speed_kmph
    /\ max_stops_per_vehicle = default_max_stops_per_vehicle
    /\ vehicles = BuildVehicles
    /\ warnings = <<>>
    /\ \E nodes \in {expanded_targets} :
          /\ ChainFeasible(nodes, [i \in DOMAIN targets |-> i], vehicles[1])
          /\ schedules = <<<<ExtractRoute(nodes, [i \in DOMAIN targets |-> i],
                                          vehicles[1])>>>>
    /\ assigned_ids = AssignedIdsOf(schedules)
    /\ unassigned = <<>>
    /\ pc = "resequence"
    /\ status = "none"
    /\ message = "none"
    /\ two_opt_order = <<>>

\* optimize_route_order applied to the routes it returned
ResequenceAgain ==
    /\ pc = "done"
    /\ status = "success"
    /\ schedules' = ResequenceAll(schedules)
    /\ pc' = "again"
    /\ UNCHANGED <<inputs, two_opt_order, vehicles, warnings, assigned_ids, unassigned, status, message>>

NextReseq == Resequence \/ ResequenceAgain

SpecReseq == InitReseq /\ [][NextReseq]_vars

\* ------------------------------------------- the 2-opt loop step by step
\* The 2-opt branch of optimize_route_order (lines 700-719) on a route of
\* more than HeldKarpMax stops without windows, one action for every run of
\* the body of the while loop.  pc holds the round of line 702.
TwoOptRounds == <<"round1", "round2", "round3">>

TwoOptRoute == schedules[1][1]

InitTwoOpt ==
    /\ dates = <<1>>
    /\ drivers_by_date = <<DriverList(1)>>
    /\ targets \in {ts \in RouteTargets : Len(ts) > HeldKarpMax}
    /\ speed_kmph = default_speed_kmph
    /\ max_stops_per_vehicle = default_max_stops_per_vehicle
    /\ vehicles = BuildVehicles
    /\ warnings = <<>>
    /\ \E nodes \in {expanded_targets} :
          /\ ChainFeasible(nodes, [i \in DOMAIN targets |-> i], vehicles[1])
          /\ schedules = <<<<ExtractRoute(nodes, [i \in DOMAIN targets |-> i],
                                          vehicles[1])>>>>
    /\ assigned_ids = AssignedIdsOf(schedules)
    /\ unassigned = <<>>
    /\ pc = "round1"
    /\ status = "none"
    /\ message = "none"
    /\ two_opt_order = [i \in DOMAIN targets |-> i]

\* lines 705-717: the scan meets a pair whose reversal shortens the tour,
\* reverses the segment and leaves improved = True
TwoOptReverse ==
    /\ pc \in Range(TwoOptRounds)
    /\ \E pts \in {StopPoints(TwoOptRoute)} : \E ps \in {TwoOptPairs(pts, two_opt_order)} :
          /\ ps /= {}
          /\ \E p \in {FirstPair(ps)} :
                two_opt_order' = ReverseSegment(two_opt_order, p[1], p[2])
    /\ UNCHANGED <<inputs, pc, vehicles, warnings, schedules, assigned_ids, unassigned,
                   status, message>>

\* lines 704-719: the scan meets no such pair, the while loop ends and the
\* next round of line 702 begins
TwoOptRoundEnds ==
    /\ pc \in Range(TwoOptRounds)
    /\ \E pts \in {StopPoints(TwoOptRoute)} : TwoOptPairs(pts, two_opt_order) = {}
    /\ pc' = IF pc = "round1" THEN "round2"
             ELSE IF pc = "round2" THEN "round3" ELSE "rebuild"
    /\ UNCHANGED <<inputs, two_opt_order, vehicles, warnings, schedules, assigned_ids,
                   unassigned, status, message>>

\* lines 721-758 and 770
TwoOptRebuild ==
    /\ pc = "rebuild"
    /\ \E times \in {DriverTimes(dates[1], TwoOptRoute.driver_id)} :
          schedules' = <<<<RebuildRoute(TwoOptRoute, two_opt_order, times[1], times[2])>>>>
    /\ status' = "success"
    /\ pc' = "done"
    /\ UNCHANGED <<inputs, two_opt_order, vehicles, warnings, assigned_ids, unassigned,
                   message>>

NextTwoOpt == TwoOptReverse \/ TwoOptRoundEnds \/ TwoOptRebuild

SpecTwoOpt == InitTwoOpt /\ [][NextTwoOpt]_vars

\* the loop is sequential code: a step that can be taken is taken
SpecTwoOptLive == SpecTwoOpt /\ WF_vars(NextTwoOpt)

\* ------------------------------------------------- build_daily_plan, lines 118-226
\* The plan of one day.  The configuration is held in the input variables:
\* drivers_by_date[1] is config["drivers"] and speed_kmph is
\* config["speed_kmph"]; schedules[1] holds the "routes" of the returned plan.
config_drivers == drivers_by_date[1]

\* lines 129-132
day_window ==
    <<MinOf({config_drivers[v].start_time : v \in DOMAIN config_drivers}),
      CHOOSE e \in {config_drivers[v].end_time : v \in DOMAIN config_drivers} :
          \A v \in DOMAIN config_drivers : config_drivers[v].end_time <= e>>

\* lines 30-37: a datetime_window is not looked at
time_window_for_target(target, dw) ==
    IF target.time_window /= NoWindow
    THEN <<target.time_window[1],
           Max2(target.time_window[1] + 1, target.time_window[2] - target.stay_minutes)>>
    ELSE dw

\* line 134: _build_time_matrix calls travel_time_minutes for every pair of
\* distinct indices of [branch] + targets
DailyMatrixRaises ==
    LET points == <<branch_pt>> \o [i \in DOMAIN targets |-> targets[i].lat]
    IN \E i, j \in DOMAIN points :
          /\ i /= j
          /\ travel_time_minutes(haversine_km(points[i], points[j]), speed_kmph) = ValueError

\* lines 144-198: a chain is a list of node numbers minus one (indices of
\* targets); the cumul values are the earliest ones the chain allows
RECURSIVE DailyCumuls(_, _, _)
DailyCumuls(chain, prev_pt, ready) ==
    IF chain = <<>> THEN <<>>
    ELSE LET t == targets[Head(chain)]
         IN CHOOSE cum \in
                {<<arrival>> \o DailyCumuls(Tail(chain), t.lat, arrival + t.stay_minutes) :
                    arrival \in {Max2(time_window_for_target(t, day_window)[1],
                                      ready + TimeMatrix(prev_pt, t.lat))}} : TRUE

DailyReadyAfter(chain, cum, drv, i) ==
    IF i = 0 THEN drv.start_time ELSE cum[i] + targets[chain[i]].stay_minutes

DailyPointAt(chain, i) == IF i = 0 THEN branch_pt ELSE targets[chain[i]].lat

DailyEndCumul(chain, cum, drv) ==
    DailyReadyAfter(chain, cum, drv, Len(chain))
        + TimeMatrix(DailyPointAt(chain, Len(chain)), branch_pt)

\* the Time dimension (slack and horizon of 24 * 60), the node ranges of
\* lines 176-179 and the vehicle ranges of lines 185-189
DailyChainFeasible(chain, drv) ==
    \E cum \in {DailyCumuls(chain, branch_pt, drv.start_time)} :
       /\ drv.start_time <= drv.end_time
       /\ drv.start_time <= 24 * 60
       /\ \A i \in DOMAIN chain :
            /\ cum[i] <= time_window_for_target(targets[chain[i]], day_window)[2]
            /\ cum[i] <= 24 * 60
            /\ cum[i] - (DailyReadyAfter(chain, cum, drv, i - 1)
                         + TimeMatrix(DailyPointAt(chain, i - 1), targets[chain[i]].lat))
                 <= 24 * 60
       /\ DailyEndCumul(chain, cum, drv) <= drv.end_time
       /\ DailyEndCumul(chain, cum, drv) <= 24 * 60

\* every assignment the model admits over the first k targets: each node is
\* on one chain or dropped (the disjunctions of lines 196-198)
RECURSIVE DailySolutions(_)
DailySolutions(k) ==
    IF k = 0 THEN {[v \in DOMAIN config_drivers |-> <<>>]}
    ELSE UNION {
           prev \cup
           UNION {UNION {
               {[s EXCEPT ![v] = InsertAt(s[v], pos, k)] : pos \in
                   {q \in 0..Len(s[v]) :
                       DailyChainFeasible(InsertAt(s[v], q, k), config_drivers[v])}}
               : v \in DOMAIN config_drivers} : s \in prev}
           : prev \in {DailySolutions(k - 1)}}

\* lines 50-55, with the last node left out of the scan
DroppedNodes_SkipLast(sol) ==
    SelectSeq([i \in 1..(Len(targets) - 1) |-> i],
              LAMBDA n : \A v \in DOMAIN sol : n \notin Range(sol[v]))

\* lines 50-55: the nodes whose next variable points at themselves
DroppedNodes(sol) ==
    SelectSeq([i \in DOMAIN targets |-> i],
              LAMBDA n : \A v \in DOMAIN sol : n \notin Range(sol[v]))

\* lines 63-113, for one driver
DailyRouteWith(chain, drv, cum) ==
    LET travel(i) == TimeMatrix(DailyPointAt(chain, i - 1), targets[chain[i]].lat)
        stops == [i \in DOMAIN chain |->
                    Stop(targets[chain[i]].id, Float(cum[i]),
                         Float(cum[i] + targets[chain[i]].stay_minutes),
                         Float(travel(i)), Float(targets[chain[i]].stay_minutes))]
        return_travel == TimeMatrix(DailyPointAt(chain, Len(chain)), branch_pt)
        total_travel == SumSeq([i \in DOMAIN chain |-> travel(i)]) + return_travel
        total_stay == SumSeq([i \in DOMAIN chain |-> targets[chain[i]].stay_minutes])
        end_time == DailyEndCumul(chain, cum, drv)
    IN Route(drv.id, stops, Float(total_travel), Float(total_stay),
             Float(end_time), Max2(0, Float(end_time) - Float(drv.end_time)),
             Float(return_travel))

\* lines 40-115
extract_routes(sol) ==
    [routes |-> [v \in DOMAIN config_drivers |->
                    CHOOSE r \in {DailyRouteWith(sol[v], config_drivers[v], cum) :
                        cum \in {DailyCumuls(sol[v], branch_pt, config_drivers[v].start_time)}} :
                        TRUE],
     unassigned |-> [i \in DOMAIN DroppedNodes(sol) |-> targets[DroppedNodes(sol)[i]].id]]

\* one call of build_daily_plan: any driver list of the fleet, any targets
InitDaily ==
    /\ dates = <<1>>
    /\ \E k \in 0..MaxDrivers : drivers_by_date = <<DriverList(k)>>
    /\ \E m \in 0..MaxTargets :
         \E ts \in [1..m -> UNION {TargetMenu(i) : i \in 1..m}] :
             /\ \A i \in 1..m : ts[i] \in TargetMenu(i)
             /\ targets = ts
    /\ speed_kmph \in SpeedMenu
    /\ max_stops_per_vehicle = default_max_stops_per_vehicle
    /\ pc = "start"
    /\ vehicles = <<>>
    /\ warnings = <<>>
    /\ schedules = <<>>
    /\ assigned_ids = {}
    /\ unassigned = <<>>
    /\ status = "none"
    /\ message = "none"
    /\ two_opt_order = <<>>

\* lines 122-124
DailyNoDrivers ==
    /\ pc = "start"
    /\ config_drivers = <<>>
    /\ pc' = "done"
    /\ status' = "error"
    /\ message' = "No drivers provided"
    /\ UNCHANGED <<inputs, two_opt_order, vehicles, warnings, schedules, assigned_ids, unassigned>>

\* line 134 raises
DailyBuildTimeMatrixRaises ==
    /\ pc = "start"
    /\ config_drivers /= <<>>
    /\ DailyMatrixRaises
    /\ pc' = "done"
    /\ status' = "ValueError"
    /\ UNCHANGED <<inputs, two_opt_order, vehicles, warnings, schedules, assigned_ids, unassigned, message>>

\* line 217 returned a solution: lines 218-225
DailySolve ==
    /\ pc = "start"
    /\ config_drivers /= <<>>
    /\ ~DailyMatrixRaises
    /\ \E sol \in DailySolutions(Len(targets)) :
         \E plan \in {extract_routes(sol)} :
            /\ schedules' = <<plan.routes>>
            /\ unassigned' = plan.unassigned
    /\ pc' = "done"
    /\ status' = "success"
    /\ UNCHANGED <<inputs, two_opt_order, vehicles, warnings, assigned_ids, message>>

\* line 217 returned None: line 226
DailySolveNone ==
    /\ pc = "start"
    /\ config_drivers /= <<>>
    /\ ~DailyMatrixRaises
    /\ pc' = "done"
    /\ status' = "no_solution"
    /\ message' = "No feasible solution found within time limit"
    /\ UNCHANGED <<inputs, two_opt_order, vehicles, warnings, schedules, assigned_ids, unassigned>>

NextDaily ==
    \/ DailyNoDrivers
    \/ DailyBuildTimeMatrixRaises
    \/ DailySolve
    \/ DailySolveNone

SpecDaily == InitDaily /\ [][NextDaily]_vars

\* ================================================================ claims
Success == pc = "done" /\ status = "success"
PlanStops == AllStops(schedules)
StopIds == {PlanStops[i].target_id : i \in DOMAIN PlanStops}
LacksDrivers(d) == DriversOn(d) = <<>>

\* the expanded node of target t that belongs to date d
NodeFor(t, d) ==
    LET ns == ExpandTarget(t)
    IN ns[CHOOSE i \in DOMAIN ns : ns[i].node_date \in {d, NoDate}]

\* the vehicle of a driver on a date
VehicleOf(d, drv_id) ==
    vehicles[CHOOSE v \in DOMAIN vehicles :
                vehicles[v].date = d /\ vehicles[v].id = drv_id]

\* C1: in a success plan every base target id occurs in at most one stop over
\* all routes of all dates.
C1_OneStopPerTarget ==
    Success => \A i, j \in DOMAIN PlanStops :
                   i /= j => PlanStops[i].target_id /= PlanStops[j].target_id

\* C2: in a success plan the ids in route stops and the unassigned list are
\* disjoint and together are exactly the input target ids.
C2_RoutesAndUnassignedPartition ==
    Success => /\ StopIds \cap Range(unassigned) = {}
               /\ StopIds \cup Range(unassigned) = base_target_ids

\* C3: every stop of the returned plan has its arrival inside tw_abs of its
\* target for the date of the schedule it sits in.
C3_ArrivalInsideWindow ==
    Success => \A di \in DOMAIN schedules : \A ri \in DOMAIN schedules[di] :
        \A si \in DOMAIN schedules[di][ri].stops :
            LET stop == schedules[di][ri].stops[si]
                tw == NodeFor(base_targets(stop.target_id), dates[di]).tw_abs
            IN Float(tw[1]) <= stop.arrival_min /\ stop.arrival_min <= Float(tw[2])

\* C4: a target whose datetime_window names a date of the date list is never
\* in the schedule of another date, at any stage.
C4_BoundTargetStaysOnItsDate ==
    \A di \in DOMAIN schedules : \A ri \in DOMAIN schedules[di] :
        \A si \in DOMAIN schedules[di][ri].stops :
            LET t == base_targets(schedules[di][ri].stops[si].target_id)
            IN (t.datetime_window /= NoWindow /\ InDates(t.datetime_window.date))
                   => dates[di] = t.datetime_window.date

\* C5: every route of the returned plan has end_time <= abs_end of its
\* (driver, date) vehicle + overtime_minutes.
C5_EndWithinShiftPlusOvertime ==
    Success => \A di \in DOMAIN schedules : \A ri \in DOMAIN schedules[di] :
        LET r == schedules[di][ri]
        IN r.end_time <= Float(VehicleOf(dates[di], r.driver_id).end) + r.overtime_minutes

\* C6: every stop of the returned plan has depart_min = arrival_min +
\* stay_minutes.
C6_DepartIsArrivalPlusStay ==
    Success => \A i \in DOMAIN PlanStops :
                   PlanStops[i].depart_min = PlanStops[i].arrival_min + PlanStops[i].stay_minutes

C8_FailsFastOnStructuralErrors ==
    /\ dates = <<>> =>
          /\ pc \in {"start", "done"}
          /\ schedules = <<>>
          /\ pc = "done" => status = "error" /\ message = "No dates provided"
    /\ (dates /= <<>> /\ \A i \in DOMAIN dates : LacksDrivers(dates[i])) =>
          /\ pc \in {"start", "done"}
          /\ schedules = <<>>
          /\ pc = "done" => /\ status = "error"
                            /\ message = "No drivers provided for given dates"

C8_Witness ==
    /\ pc = "done"
    /\ status = "error"
    /\ dates = <<>>
    /\ targets /= <<>>
    /\ \E d \in DOMAIN drivers_by_date : drivers_by_date[d] /= <<>>

\* C9: in a success plan warnings is the sub-sequence of the dates that lack
\* drivers, in input order, and the schedule of such a date holds no route at
\* any stage.
C9_WarningsAndEmptySchedules ==
    /\ Success => warnings = SelectSeq(dates, LacksDrivers)
    /\ \A di \in DOMAIN schedules : LacksDrivers(dates[di]) => schedules[di] = <<>>

C9_Witness ==
    /\ Success
    /\ Len(warnings) >= 2
    /\ \E i \in DOMAIN PlanStops :
          LET t == base_targets(PlanStops[i].target_id)
          IN t.datetime_window /= NoWindow /\ LacksDrivers(t.datetime_window.date)

\* C10: when the solver returns no assignment the call returns no_solution
\* with every base target id unassigned and no routes, without sweeping,
\* backfilling or re-sequencing; the later stages only run on the routes
\* extracted from a solution (one per vehicle).
C10_NoSolutionReturnsAtOnce ==
    /\ status = "no_solution" =>
          /\ pc = "done"
          /\ schedules = <<>>
          /\ assigned_ids = {}
          /\ unassigned = [i \in DOMAIN targets |-> targets[i].id]
    /\ pc \in {"sweep", "backfill", "resequence"} =>
          /\ status = "none"
          /\ \A v \in DOMAIN vehicles :
                \E ri \in DOMAIN schedules[DateIndex(vehicles[v].date)] :
                    schedules[DateIndex(vehicles[v].date)][ri].driver_id = vehicles[v].id

C10_Witness ==
    /\ status = "no_solution"
    /\ Len(targets) >= 2

\* C11: with the inputs and the solver output fixed, the plan that backfill
\* leaves does not depend on the order in which the set of missing drivers is
\* iterated.
C11_BackfillIgnoresSetOrder ==
    (pc = "backfill" /\ UsedDays(schedules) /= <<>>) =>
        \A m1, m2 \in Perms(MissingDrivers(schedules, UsedDays(schedules)[1])) :
            BackfillWith(m1, UsedDays(schedules)) = BackfillWith(m2, UsedDays(schedules))

\* the number of stops of a driver on a date, over all routes of the driver
StopsOfDriver(di, drv_id) ==
    SumSeq([ri \in DOMAIN schedules[di] |->
               IF schedules[di][ri].driver_id = drv_id
               THEN Len(schedules[di][ri].stops) ELSE 0])

\* C13: in a success plan of an instance with more than one vehicle no
\* (driver, date) pair carries more than max_stops_per_vehicle stops, counting
\* every route of that driver on that date.
C13_DriverDayWithinStopLimit ==
    (Success /\ Len(vehicles) > 1) =>
        \A di \in DOMAIN schedules : \A ri \in DOMAIN schedules[di] :
            StopsOfDriver(di, schedules[di][ri].driver_id) <= max_stops_per_vehicle

\* C15 as stated: travel_time_minutes fails for every speed <= 0 whatever the
\* distance and returns 0 for every distance <= 0 with speed > 0; and
\* build_global_plan called with speed <= 0 and at least one target raises.
C15_NonPositiveSpeedRaises ==
    /\ \A d \in (0 - MaxKm)..MaxKm : \A v \in (0 - MaxSpeed)..MaxSpeed :
          /\ v <= 0 => travel_time_minutes(d, v) = ValueError
          /\ (v > 0 /\ d <= 0) => travel_time_minutes(d, v) = 0
    /\ (pc = "done" /\ speed_kmph <= 0 /\ targets /= <<>>) => status = "ValueError"

\* C15 amended: the same for travel_time_minutes; build_global_plan called
\* with speed <= 0 and at least one target raises when the date list is not
\* empty and some listed date has a driver, and returns the validation error
\* otherwise.
C15_NonPositiveSpeedRaisesAfterValidation ==
    /\ \A d \in (0 - MaxKm)..MaxKm : \A v \in (0 - MaxSpeed)..MaxSpeed :
          /\ v <= 0 => travel_time_minutes(d, v) = ValueError
          /\ (v > 0 /\ d <= 0) => travel_time_minutes(d, v) = 0
    /\ (pc = "done" /\ speed_kmph <= 0 /\ targets /= <<>>) =>
          IF dates /= <<>> /\ \E i \in DOMAIN dates : ~LacksDrivers(dates[i])
          THEN status = "ValueError" /\ schedules = <<>>
          ELSE status = "error"

C15_Witness ==
    /\ pc = "done"
    /\ status = "ValueError"
    /\ speed_kmph < 0
    /\ Len(targets) >= 2

\* C14: in a success plan the dates that have a non-empty route form a
\* contiguous run of the date list.
C14_UsedDatesContiguous ==
    Success =>
        \A i, j, k \in DOMAIN dates :
            (i < j /\ j < k
                /\ (\E r \in DOMAIN schedules[i] : HasStops(schedules[i][r]))
                /\ (\E r \in DOMAIN schedules[k] : HasStops(schedules[k][r])))
            => \E r \in DOMAIN schedules[j] : HasStops(schedules[j][r])

\* C16: no required target id is in unassigned of a success plan.
C16_RequiredTargetsAreSwept ==
    Success => \A i \in DOMAIN targets :
                   targets[i].required => targets[i].id \notin Range(unassigned)

\* C17: along every route of a success plan the arrival_min values are
\* non-decreasing in stop order.
C17_ArrivalsNonDecreasing ==
    Success => \A di \in DOMAIN schedules : \A ri \in DOMAIN schedules[di] :
        \A si \in 1..(Len(schedules[di][ri].stops) - 1) :
            schedules[di][ri].stops[si].arrival_min
                <= schedules[di][ri].stops[si + 1].arrival_min

C17_Witness ==
    /\ Success
    /\ \E di \in DOMAIN schedules : \E ri \in DOMAIN schedules[di] :
          LET stops == schedules[di][ri].stops
          IN /\ Len(stops) >= 3
             /\ \A si \in DOMAIN stops : ~HasWindow(base_targets(stops[si].target_id))
             /\ stops[1].arrival_min < stops[3].arrival_min

\* depot -> points -> depot travel of a sequence of points
RECURSIVE PathTravel(_, _)
PathTravel(prev, pts) ==
    IF pts = <<>> THEN travel_time_minutes(haversine_km(prev, branch_pt), speed_kmph)
    ELSE travel_time_minutes(haversine_km(prev, Head(pts)), speed_kmph)
             + PathTravel(Head(pts), Tail(pts))

TourTravel(stops) ==
    PathTravel(branch_pt, [i \in DOMAIN stops |-> base_targets(stops[i].target_id).lat])

\* sum of stop travel plus return travel of a route
TotalTravel(r) ==
    SumSeq([i \in DOMAIN r.stops |-> r.stops[i].travel_minutes]) + r.return_travel_minutes

NoWindowIn(stops) ==
    \A i \in DOMAIN stops : ~HasWindow(base_targets(stops[i].target_id))

\* C12: applying the re-sequencer to a route it has produced does not
\* increase the route's total travel (stop travel plus return travel).
C12_ReapplyingDoesNotIncreaseTravel ==
    [][(pc = "done" /\ pc' = "again") =>
          \A di \in DOMAIN schedules : \A ri \in DOMAIN schedules[di] :
              TotalTravel(schedules'[di][ri]) <= TotalTravel(schedules[di][ri])]_vars

C12_Witness ==
    /\ pc = "again"
    /\ Len(schedules[1][1].stops) > HeldKarpMax
    /\ \E i \in DOMAIN targets : schedules[1][1].stops[i].target_id /= targets[i].id

\* C19: for a route of 3 to 20 stops without any windowed target the
\* re-sequencer returns a permutation of the stops whose depot -> stops ->
\* depot travel is the least over all orders of those stops.
C19_HeldKarpOrderIsOptimal ==
    [][(pc = "resequence" /\ pc' = "done" /\ status' = "success") =>
          \A di \in DOMAIN schedules : \A ri \in DOMAIN schedules[di] :
              LET old == schedules[di][ri].stops
                  new == schedules'[di][ri].stops
              IN (Len(old) >= 3 /\ Len(old) <= HeldKarpMax /\ NoWindowIn(old)) =>
                    /\ \E p \in Perms(DOMAIN old) :
                          new = [i \in DOMAIN p |->
                                    [new[i] EXCEPT !.target_id = old[p[i]].target_id]]
                    /\ \A p \in Perms(DOMAIN old) :
                          TourTravel(new) <= TourTravel([i \in DOMAIN p |-> old[p[i]]])
                    /\ TotalTravel(schedules'[di][ri]) = TourTravel(new)]_vars

C19_Witness ==
    /\ pc = "done"
    /\ status = "success"
    /\ Len(schedules[1][1].stops) >= 4
    /\ NoWindowIn(schedules[1][1].stops)
    /\ \E i \in DOMAIN targets : schedules[1][1].stops[i].target_id /= targets[i].id

\* C20: the re-sequencer returns a route as it was when the route has fewer
\* than 3 stops or holds a stop of a target with a time_window or a
\* datetime_window.
C20_ShortOrWindowedRouteUntouched ==
    [][(pc = "resequence" /\ pc' = "done" /\ status' = "success") =>
          \A di \in DOMAIN schedules : \A ri \in DOMAIN schedules[di] :
              (Len(schedules[di][ri].stops) < 3 \/ ~NoWindowIn(schedules[di][ri].stops))
                  => schedules'[di][ri] = schedules[di][ri]]_vars

C20_Witness ==
    /\ Success
    /\ \E di \in DOMAIN schedules : \E ri \in DOMAIN schedules[di] :
          /\ Len(schedules[di][ri].stops) >= 3
          /\ ~NoWindowIn(schedules[di][ri].stops)
          /\ schedules[di][ri].stops[1].arrival_min > Float(VehicleOf(dates[di], schedules[di][ri].driver_id).start)
                 + travel_time_minutes(
                       haversine_km(branch_pt,
                           base_targets(schedules[di][ri].stops[1].target_id).lat),
                       speed_kmph)

TimesIn(seq, x) == Cardinality({i \in DOMAIN seq : seq[i] = x})

\* C18: when build_daily_plan returns status success, every input target id
\* is in the stops of exactly one route or in unassigned, never both and never
\* neither, and the plan has exactly one route per configured driver, in
\* driver order.
C18_DailyPlanPartitionsTargets ==
    Success =>
        /\ Len(schedules) = 1
        /\ \A i \in DOMAIN targets :
             TimesIn([j \in DOMAIN PlanStops |-> PlanStops[j].target_id], targets[i].id)
                 + TimesIn(unassigned, targets[i].id) = 1
        /\ Len(PlanStops) + Len(unassigned) = Len(targets)
        /\ Len(schedules[1]) = Len(config_drivers)
        /\ \A v \in DOMAIN config_drivers :
             schedules[1][v].driver_id = config_drivers[v].id

C18_Witness ==
    /\ Success
    /\ Len(unassigned) = 1
    /\ Len(config_drivers) = 3
    /\ \E v \in DOMAIN schedules[1] : Len(schedules[1][v].stops) = 2
    /\ \E v \in DOMAIN schedules[1] : schedules[1][v].stops = <<>>
    /\ schedules[1][2].stops /= <<>>

\* C21: the greedy sweeper appends a route to a date's schedule only when it
\* placed at least one stop on it: a driver for whom the first remaining
\* target does not fit gets no new route.
C21_SweeperAppendsOnlyNonEmptyRoutes ==
    [][(pc = "sweep" /\ pc' = "backfill") =>
          \A di \in DOMAIN schedules' :
              \A ri \in (Len(schedules[di]) + 1)..Len(schedules'[di]) :
                  HasStops(schedules'[di][ri])]_vars

\* the expanded nodes of the targets that have a datetime_window
BoundTargets == {i \in DOMAIN targets : targets[i].datetime_window /= NoWindow}

\* the window of node n lies inside the day of date d
NodeOnDate(n, d) ==
    /\ InDates(d)
    /\ date_to_offset(d) <= n.tw_abs[1]
    /\ n.tw_abs[1] < date_to_offset(d) + DayMinutes

DriversWithStops(rs) == {rs[i].driver_id : i \in {j \in DOMAIN rs : HasStops(rs[j])}}

\* C23: when exactly one date has non-empty routes, backfill takes stops only
\* from routes of that date that hold more than one stop, so every driver that
\* had stops on that date before backfill still has at least one stop after it.
C23_SingleDayDonorsKeepAStop ==
    [][(pc = "backfill" /\ pc' = "resequence" /\ Len(UsedDays(schedules)) = 1) =>
          LET di == DateIndex(UsedDays(schedules)[1])
          IN /\ \A ri \in DOMAIN schedules[di] :
                    schedules'[di][ri].stops /= schedules[di][ri].stops
                        => Len(schedules[di][ri].stops) > 1
             /\ DriversWithStops(schedules[di]) \subseteq DriversWithStops(schedules'[di])]_vars

\* C24: every route with zero stops in the returned plan has end_time equal
\* to its vehicle's abs_start and travel_minutes, stay_minutes,
\* return_travel_minutes and overtime_minutes all zero.
C24_EmptyRouteHasZeroTotals ==
    Success => \A di \in DOMAIN schedules : \A ri \in DOMAIN schedules[di] :
        LET r == schedules[di][ri]
        IN ~HasStops(r) =>
              /\ r.end_time = Float(VehicleOf(dates[di], r.driver_id).start)
              /\ r.travel_minutes = 0
              /\ r.stay_minutes = 0
              /\ r.return_travel_minutes = 0
              /\ r.overtime_minutes = 0

\* depot -> stops in the order ord -> depot, over the points pts
TourLength(pts, ord) ==
    Dist(pts, 0, ord[1])
        + SumSeq([i \in 1..(Len(ord) - 1) |-> Dist(pts, ord[i], ord[i + 1])])
        + Dist(pts, ord[Len(ord)], 0)

IsPermutation(ord, n) == Len(ord) = n /\ Range(ord) = 1..n

\* C25: for a route of more than 20 un-windowed stops, the 2-opt branch of
\* optimize_route_order terminates for every input, every accepted segment
\* reversal strictly lowers the depot -> stops -> depot tour length, and the
\* order it ends with is a permutation of the route's stops.
C25_TwoOptTerminatesAndShortens ==
    /\ <>(pc = "done")
    /\ [][two_opt_order' /= two_opt_order =>
             \E pts \in {StopPoints(TwoOptRoute)} :
                 TourLength(pts, two_opt_order') < TourLength(pts, two_opt_order)]_vars
    /\ [](IsPermutation(two_opt_order, Len(targets)))
    /\ [][pc' = "done" =>
             /\ Len(schedules'[1][1].stops) = Len(schedules[1][1].stops)
             /\ \A i \in DOMAIN two_opt_order :
                   schedules'[1][1].stops[i].target_id
                       = schedules[1][1].stops[two_opt_order[i]].target_id]_vars

C25_Witness ==
    /\ pc = "done"
    /\ status = "success"
    /\ Len(two_opt_order) > HeldKarpMax
    /\ two_opt_order /= [i \in DOMAIN targets |-> i]
    /\ two_opt_order = TwoOptOrder([i \in DOMAIN targets |-> targets[i].lat])

\* the objectives of minimum cost
Cheapest(objs) == {o \in objs : \A o2 \in objs : BigLeq(SolutionCost(o), SolutionCost(o2))}

\* C26: for the routing model that build_global_plan formulates (arc cost =
\* travel minutes, one disjunction per base id with penalty 1e9 if required
\* and 5e8 if optional), any feasible solution of minimum cost has the minimum
\* total drop penalty among all feasible solutions whenever total travel stays
\* below 5e8, and travel is minimised only among the solutions with the same
\* dropped penalty.
C26_CheapestSolutionDropsLeast ==
    (pc = "solve" /\ ~TimeMatrixRaises) =>
        \E objs \in {Objectives} :
            (\A o \in objs : o[1] < penalty_optional) =>
                \A o \in Cheapest(objs) : \A o2 \in objs :
                    /\ BigLeq(o[2], o2[2])
                    /\ o2[2] = o[2] => o[1] <= o2[1]

C26_Witness ==
    /\ pc = "solve"
    /\ ~TimeMatrixRaises
    /\ \E objs \in {Objectives} : \E o \in Cheapest(objs) :
          /\ o[1] > 0
          /\ o[2] /= Big(0)
          /\ \E o2 \in objs : o2[1] < o[1] /\ ~BigLeq(o2[2], o[2])
          /\ \E o2 \in objs : o2[2] = o[2] /\ o2[1] > o[1]

\* the target ids of the stops of all routes, one entry per stop
StopIdList(sch) == [i \in DOMAIN AllStops(sch) |-> AllStops(sch)[i].target_id]

SameIdMultiset(a, b) ==
    /\ Len(a) = Len(b)
    /\ \A x \in Range(a) \cup Range(b) : TimesIn(a, x) = TimesIn(b, x)

\* C27: backfill and the re-sequencer preserve the multiset of target ids
\* held in route stops: every stop popped from a donor route is appended to
\* exactly one new single-stop route on the earliest used day, and a
\* re-sequenced route holds exactly the stops it held before.  (A new route
\* may lose its stop again to the next missing driver, lines 603-642.)
C27_StopsArePreserved ==
    [][/\ (pc = "backfill" /\ pc' = "resequence") =>
             /\ SameIdMultiset(StopIdList(schedules), StopIdList(schedules'))
             /\ \A di \in DOMAIN schedules :
                   \A ri \in (Len(schedules[di]) + 1)..Len(schedules'[di]) :
                       /\ dates[di] = UsedDays(schedules)[1]
                       /\ Len(schedules'[di][ri].stops) <= 1
       /\ (pc = "resequence" /\ pc' = "done" /\ status' = "success") =>
             \A di \in DOMAIN schedules :
                 /\ Len(schedules'[di]) = Len(schedules[di])
                 /\ \A ri \in DOMAIN schedules[di] :
                       SameIdMultiset(StopIdList(<<<<schedules[di][ri]>>>>),
                                      StopIdList(<<<<schedules'[di][ri]>>>>))]_vars

\* a plan in which backfill emptied a donor route and gave its stop to a
\* driver of the earliest used day
C27_Witness ==
    /\ Success
    /\ Len(PlanStops) >= 2
    /\ \E di \in DOMAIN schedules : \E ri, rj \in DOMAIN schedules[di] :
          /\ ~HasStops(schedules[di][ri])
          /\ schedules[di][ri].travel_minutes > 0
          /\ Len(schedules[di][rj].stops) = 1
          /\ schedules[di][rj].travel_minutes = 0
          /\ base_targets(schedules[di][rj].stops[1].target_id).lat /= branch_pt

StopStaySum(r) == SumSeq([i \in DOMAIN r.stops |-> r.stops[i].stay_minutes])

StopTravelSum(r) == SumSeq([i \in DOMAIN r.stops |-> r.stops[i].travel_minutes])

\* C28: for every route in the returned plan, the route's stay_minutes equals
\* the sum of stay_minutes of the stops it currently holds, including donor
\* routes from which backfill removed a stop.
C28_StayIsSumOfStopStays ==
    Success => \A di \in DOMAIN schedules : \A ri \in DOMAIN schedules[di] :
                   schedules[di][ri].stay_minutes = StopStaySum(schedules[di][ri])

\* a plan with a donor route that still holds a stop: its travel total counts
\* the legs of the stop backfill took away
C28_Witness ==
    /\ Success
    /\ \E di \in DOMAIN schedules : \E ri \in DOMAIN schedules[di] :
          LET r == schedules[di][ri]
          IN /\ HasStops(r)
             /\ r.stay_minutes > 0
             /\ r.travel_minutes > StopTravelSum(r) + r.return_travel_minutes

TravelIsStopsPlusReturn(r) ==
    r.travel_minutes = StopTravelSum(r) + r.return_travel_minutes

Apart(s, t) == s.depart_min <= t.arrival_min \/ t.depart_min <= s.arrival_min

====
